---- MODULE Spec2Model ----
(***************************************************************************)
(* State machine of the Genius_loci browser client: src/script.js (the     *)
(* session/view controller and media acquisition) and src/api.js (the      *)
(* remote gateway).  One action per event handler or asynchronous          *)
(* completion; the browser runs them one at a time (run to completion).    *)
(*                                                                         *)
(* Texts are sequences of tokens.  A typed text is a sequence of single    *)
(* characters; the characters of the three keywords are written in pinyin: *)
(* "ni","hao" (greeting), "gu","shi" (story), "ming","zi" (name).  A fixed  *)
(* text of the program is a one-token sequence naming it in ASCII.         *)
(* The 150 ms timers of handleAwaken and handleCapture only reset a CSS    *)
(* transform that no handler reads; style is not part of the state.        *)
(***************************************************************************)
EXTENDS Integers, Sequences, FiniteSets, TLC

\* ------------------------------------------------------------------ bounds
MaxInputs == 2      \* user messages of a run (accepted sends and photo submissions)
MaxUploadsInFlight == 1   \* accepted handleFiles calls whose files are still pending
RandDenom == 2      \* Math.random() takes the values r / RandDenom, r < RandDenom
MaxLen == 4         \* characters of a text handed to generateSpiritResponse

\* ------------------------------------------------------------ input domains
Frames == {"frame"}                 \* data URIs toDataURL returns
Images == Frames \cup {"imgA", "imgB"}   \* and those of uploaded files
NoImage == "null"

WhiteSpace == {" "}
\* what the input field may hold when a send is attempted
InputTexts == { <<>>, <<" ", " ">>, <<" ", "ni", "hao", " ">> }

\* the texts generateSpiritResponse is asked about: no white space at the ends
Chars == {"ni", "hao", "gu", "shi", "ming", "zi", "x"}
TypedTexts == UNION {[1..n -> Chars] : n \in 1..MaxLen}

ImagePrefix == <<"image", "/">>
PngFile(d) == [type |-> <<"image", "/", "png">>, data |-> d]
TxtFile == [type |-> <<"text", "/", "plain">>, data |-> "txt"]
UntypedFile == [type |-> <<>>, data |-> "bin"]
FileLists ==
    { <<>>, <<UntypedFile, TxtFile>>,
      <<TxtFile, PngFile("imgA"), PngFile("imgB")>> }

\* HTTP exchanges of POST /api/identify: net = the fetch resolved, ok =
\* response.ok, decodable = response.json() resolved, the rest is the body.
IdentifyResponses ==
    { [net |-> FALSE, ok |-> FALSE, decodable |-> FALSE, success |-> FALSE,
       objects |-> FALSE, error |-> "undefined"],
      [net |-> TRUE, ok |-> TRUE, decodable |-> FALSE, success |-> FALSE,
       objects |-> FALSE, error |-> "undefined"],
      [net |-> TRUE, ok |-> TRUE, decodable |-> TRUE, success |-> TRUE,
       objects |-> TRUE, error |-> "undefined"],
      [net |-> TRUE, ok |-> TRUE, decodable |-> TRUE, success |-> TRUE,
       objects |-> FALSE, error |-> "undefined"],
      [net |-> TRUE, ok |-> TRUE, decodable |-> TRUE, success |-> FALSE,
       objects |-> FALSE, error |-> "undefined"],
      [net |-> TRUE, ok |-> FALSE, decodable |-> TRUE, success |-> FALSE,
       objects |-> FALSE, error |-> "server says no"],
      [net |-> TRUE, ok |-> FALSE, decodable |-> TRUE, success |-> FALSE,
       objects |-> FALSE, error |-> "undefined"],
      [net |-> TRUE, ok |-> FALSE, decodable |-> FALSE, success |-> FALSE,
       objects |-> FALSE, error |-> "undefined"] }

\* HTTP exchanges of GET /health: body is "undecodable", "null" (the JSON
\* value null) or the status field of the decoded object.
HealthResponses ==
    { [net |-> FALSE, body |-> "undecodable"],
      [net |-> TRUE, body |-> "undecodable"],
      [net |-> TRUE, body |-> "null"],
      [net |-> TRUE, body |-> "ok"],
      [net |-> TRUE, body |-> "error"],
      [net |-> TRUE, body |-> "undefined"] }

\* --------------------------------------------------------------- pure parts
RECURSIVE TrimStart(_)
TrimStart(s) ==
    IF s # <<>> /\ Head(s) \in WhiteSpace THEN TrimStart(Tail(s)) ELSE s

RECURSIVE TrimEnd(_)
TrimEnd(s) ==
    IF s # <<>> /\ s[Len(s)] \in WhiteSpace
    THEN TrimEnd(SubSeq(s, 1, Len(s) - 1)) ELSE s

\* mutant: the text is taken as typed
Trim_none(s) == s

\* String.prototype.trim
Trim(s) == TrimEnd(TrimStart(s))

\* String.prototype.startsWith
StartsWith(s, p) == Len(p) <= Len(s) /\ SubSeq(s, 1, Len(p)) = p

\* String.prototype.includes
Includes(s, k) ==
    \E i \in 1..(Len(s) + 1) :
        i + Len(k) - 1 <= Len(s) /\ SubSeq(s, i, i + Len(k) - 1) = k

\* mutant: no filter
imageFilesOf_all(files) == files

\* Array.from(files).filter(file => file.type.startsWith('image/'))
RECURSIVE imageFilesOf(_)
imageFilesOf(files) ==
    IF files = <<>> THEN <<>>
    ELSE IF StartsWith(Head(files).type, ImagePrefix)
         THEN <<Head(files)>> \o imageFilesOf(Tail(files))
         ELSE imageFilesOf(Tail(files))

\* Math.floor(Math.random() * n) for the draw r / RandDenom
RandomIndex(r, n) == (r * n) \div RandDenom
Draws == 0..(RandDenom - 1)

\* the responses table of generateSpiritResponse, in property order
responses ==
    << [key |-> <<"ni", "hao">>,
        value |-> <<"greeting-1", "greeting-2", "greeting-3">>],
       [key |-> <<"gu", "shi">>,
        value |-> <<"story-1", "story-2", "story-3">>],
       [key |-> <<"ming", "zi">>,
        value |-> <<"name-1", "name-2">>] >>
responsesDefault ==
    <<"default-1", "default-2", "default-3", "default-4", "default-5",
      "default-6", "default-7">>

\* mutant: the last keyword of the table that occurs wins
RECURSIVE FirstMatch_last(_, _)
FirstMatch_last(userMessage, i) ==
    IF i > Len(responses) THEN 0
    ELSE LET later == FirstMatch_last(userMessage, i + 1)
         IN  IF later # 0 THEN later
             ELSE IF Includes(userMessage, responses[i].key) THEN i ELSE 0

RECURSIVE FirstMatch(_, _)
FirstMatch(userMessage, i) ==
    IF i > Len(responses) THEN 0
    ELSE IF Includes(userMessage, responses[i].key) THEN i
         ELSE FirstMatch(userMessage, i + 1)

generateSpiritResponse(userMessage, r) ==
    LET i == FirstMatch(userMessage, 1)
        value == IF i = 0 THEN responsesDefault ELSE responses[i].value
    IN  <<value[RandomIndex(r, Len(value)) + 1]>>

capturedResponses ==
    <<"captured-1", "captured-2", "captured-3", "captured-4">>
uploadedResponses ==
    <<"uploaded-1", "uploaded-2", "uploaded-3", "uploaded-4", "uploaded-5">>

TookPhotoText == <<"I took a photo">>
UploadedPhotoText == <<"I uploaded a picture">>
LookingCapturedText == <<"let me see what this is...">>
LookingUploadedText == <<"let me see what you uploaded...">>
NotIdentifiedText == <<"sorry, I could not identify this">>
IdentifyErrorText == <<"identification went wrong, but I feel the photo">>
IdentifiedText == <<"identified: ", "description", "objects: ", "o1", ", ", "o2">>

\* ------------------------------------------------------------ src/api.js
\* The try block of checkHealth: fetch, then response.json().  status is
\* the status field of the decoded body, "null" standing for a body that is
\* the JSON value null.
checkHealthTry(resp) ==
    IF ~resp.net \/ resp.body = "undecodable"
    THEN [threw |-> TRUE, status |-> "undefined"]
    ELSE [threw |-> FALSE, status |-> resp.body]

\* mutant: no catch around the request
checkHealth_noCatch(resp) == checkHealthTry(resp)

\* APIClient.checkHealth: the decoded body, or {status: 'error'} from the
\* catch when the fetch or the decoding failed.
checkHealth(resp) ==
    LET data == checkHealthTry(resp)
    IN  IF data.threw THEN [threw |-> FALSE, status |-> "error"] ELSE data

\* APIClient.identifyImage: the decoded body, or a thrown error.
identifyImage(resp) ==
    IF ~resp.net THEN [threw |-> TRUE, message |-> "fetch failed", data |-> resp]
    ELSE IF ~resp.decodable
    THEN [threw |-> TRUE, message |-> "body is not JSON", data |-> resp]
    ELSE IF ~resp.ok
    THEN [threw |-> TRUE,
          message |-> IF resp.error # "undefined" THEN resp.error
                      ELSE "identify failed",
          data |-> resp]
    ELSE [threw |-> FALSE, message |-> "", data |-> resp]

\* HTTP exchanges of POST /api/chat have the same shape.
ChatResponses == IdentifyResponses

\* APIClient.chat: the decoded body, or a thrown error.  As in identifyImage
\* the body is decoded before the status is looked at.
chat(resp) ==
    IF ~resp.net THEN [threw |-> TRUE, message |-> "fetch failed", data |-> resp]
    ELSE IF ~resp.decodable
    THEN [threw |-> TRUE, message |-> "body is not JSON", data |-> resp]
    ELSE IF ~resp.ok
    THEN [threw |-> TRUE,
          message |-> IF resp.error # "undefined" THEN resp.error
                      ELSE "chat failed",
          data |-> resp]
    ELSE [threw |-> FALSE, message |-> "", data |-> resp]

\* the arguments chat may be called with: imageBase64 is null (the default),
\* the empty string or a data URI; context is '' (the default) or a text
ChatImages == {NoImage, ""} \cup Images
ChatContexts == {"", "context"}

\* mutant: the image field is always set
chatPayload_alwaysImage(message, imageBase64, context) ==
    [message |-> message, context |-> context, image |-> imageBase64]

\* the payload chat builds and sends as the request body
chatPayload(message, imageBase64, context) ==
    IF imageBase64 \notin {NoImage, ""}
    THEN [message |-> message, context |-> context, image |-> imageBase64]
    ELSE [message |-> message, context |-> context]

\* ------------------------------------------------------------------ state
VARIABLES
    apiClient,        \* "client" or "null"
    initAPIpc,        \* "await" while checkHealth is pending, then "done"
    healthProbes,     \* requests sent to the health endpoint so far
    currentStream,    \* "stream" or "null"
    initCameraPc,     \* "await" while getUserMedia is pending, then "done"
    tracks,           \* the tracks of the stream handed out by getUserMedia
    hidden,           \* document.hidden
    homeActive,       \* homeScreen.classList has 'active'
    chatActive,       \* chatScreen.classList has 'active'
    modalActive,      \* photoModal.classList has 'active'
    capturedSrc,      \* capturedPhoto.src
    chatMessages,     \* the children of chatMessages, in order
    usePhotoBtnInDom, \* the element bound to usePhotoBtn is still in the document
    useListeners,     \* click listeners of the element with id use-photo-btn
    readers,          \* accepted files whose preview is still to come
    timers,           \* pending setTimeout callbacks that append a reply
    requests,         \* identify calls awaiting their response
    uncaught,         \* a handler has ended in an uncaught exception
    nInputs           \* user messages so far (history)

vars ==
    <<apiClient, initAPIpc, healthProbes, currentStream, initCameraPc, tracks,
      hidden, homeActive, chatActive, modalActive, capturedSrc,
      chatMessages, usePhotoBtnInDom, useListeners, readers, timers, requests,
      uncaught, nInputs>>

apiVars == <<apiClient, initAPIpc, healthProbes>>
cameraVars == <<currentStream, initCameraPc, tracks, hidden>>
screenVars == <<homeActive, chatActive>>
buttonVars == <<usePhotoBtnInDom, useListeners>>
historyVars == <<nInputs>>

\* The part of the page the chat handlers write, as one value they pass on.
Page ==
    [msgs |-> chatMessages, modal |-> modalActive, home |-> homeActive,
     chat |-> chatActive, timers |-> timers, requests |-> requests]

SetPage(p) ==
    /\ chatMessages' = p.msgs
    /\ modalActive' = p.modal
    /\ homeActive' = p.home
    /\ chatActive' = p.chat
    /\ timers' = p.timers
    /\ requests' = p.requests

\* mutant: the message is put in front of the transcript
addMessage_prepends(p, type, text, image, req, k) ==
    [p EXCEPT !.msgs =
        <<[type |-> type, text |-> text, image |-> image,
           req |-> req, k |-> k]>> \o @]

\* addMessage(type, text, image).  req and k say which input and which of its
\* handler calls the message belongs to (history, not read by the program).
addMessage(p, type, text, image, req, k) ==
    [p EXCEPT !.msgs =
        Append(@, [type |-> type, text |-> text, image |-> image,
                   req |-> req, k |-> k])]

\* mutant: closing the overlay also goes back to the home screen
closePhotoModal_goesHome(p) ==
    [p EXCEPT !.modal = FALSE, !.home = TRUE, !.chat = FALSE]

closePhotoModal(p) == [p EXCEPT !.modal = FALSE]

retakePhoto(p) == closePhotoModal(p)

\* mutant: going back to the home screen drops the pending replies
showHomeScreen_cancels(p) ==
    [p EXCEPT !.home = TRUE, !.chat = FALSE, !.timers = {}, !.requests = {}]

\* mutant: going back to the home screen empties the transcript
showHomeScreen_clears(p) ==
    [p EXCEPT !.home = TRUE, !.chat = FALSE, !.msgs = <<>>]

showHomeScreen(p) == [p EXCEPT !.home = TRUE, !.chat = FALSE]

\* mutant: the home screen keeps its active class
showChatScreen_keepsHome(p) == [p EXCEPT !.chat = TRUE]

showChatScreen(p) == [p EXCEPT !.home = FALSE, !.chat = TRUE]

\* ---------------------------------------------------------- initial state
\* The state when the DOMContentLoaded handler has returned: initAPI is
\* suspended in checkHealth, initCamera in getUserMedia (or has returned, when
\* the browser has no mediaDevices), the listeners of initEventListeners are
\* bound.  The document starts on the home screen with an empty transcript.
Init ==
    /\ apiClient = "client"
    /\ initAPIpc = "await"
    /\ healthProbes = 1
    /\ currentStream = "null"
    /\ initCameraPc \in {"await", "done"}
    /\ tracks = <<>>
    /\ hidden = FALSE
    /\ homeActive = TRUE
    /\ chatActive = FALSE
    /\ modalActive = FALSE
    /\ capturedSrc = ""
    /\ chatMessages = <<>>
    /\ usePhotoBtnInDom = TRUE
    /\ useListeners = <<[fn |-> "usePhoto", imageData |-> NoImage]>>
    /\ readers = {}
    /\ timers = {}
    /\ requests = {}
    /\ uncaught = FALSE
    /\ nInputs = 0

\* ------------------------------------------------------------- initAPI
\* The continuation of initAPI after await apiClient.checkHealth().  A body
\* that is null makes health.status throw, which the catch turns into
\* apiClient = null.
\* mutant: the else branch that drops the client is missing
initAPI_noElse(resp) ==
    LET health == checkHealth(resp)
    IN  IF health.threw \/ health.status = "null" THEN "null" ELSE apiClient

\* the value of apiClient when initAPI returns: its catch takes what
\* checkHealth throws and the TypeError of null.status
initAPI(resp) ==
    LET health == checkHealth(resp)
    IN  IF health.threw \/ health.status = "null" THEN "null"
        ELSE IF health.status = "ok" THEN apiClient
        ELSE "null"

OkHealth(resp) == resp.net /\ resp.body = "ok"

initAPIResume(resp) ==
    /\ initAPIpc = "await"
    /\ apiClient' = initAPI(resp)
    /\ initAPIpc' = "done"
    /\ UNCHANGED <<healthProbes, cameraVars, screenVars, modalActive,
                   capturedSrc, chatMessages, buttonVars, readers,
                   timers, requests, uncaught, historyVars>>

HealthDone == \E resp \in HealthResponses : initAPIResume(resp)

\* ------------------------------------------------------------ initCamera
CameraOutcomes == {"granted", "NotAllowedError", "NotFoundError", "OtherError"}

\* The continuation of initCamera after await getUserMedia(...).
initCamera(outcome) ==
    IF outcome = "granted"
    THEN /\ currentStream' = "stream"
         /\ tracks' = <<[kind |-> "video", enabled |-> TRUE, stopped |-> FALSE]>>
    ELSE UNCHANGED <<currentStream, tracks>>

CameraDone ==
    /\ initCameraPc = "await"
    /\ \E outcome \in CameraOutcomes : initCamera(outcome)
    /\ initCameraPc' = "done"
    /\ UNCHANGED <<apiVars, hidden, screenVars, modalActive, capturedSrc,
                   chatMessages, buttonVars, readers, timers,
                   requests, uncaught, historyVars>>

\* ------------------------------------------------- screens and the overlay
chatFrame ==
    <<apiVars, cameraVars, capturedSrc, buttonVars, readers, uncaught>>

handleAwaken ==
    /\ SetPage(showChatScreen(Page))
    /\ UNCHANGED <<chatFrame, historyVars>>

\* backBtn click
BackClick ==
    /\ SetPage(showHomeScreen(Page))
    /\ UNCHANGED <<chatFrame, historyVars>>

\* mutant: the capture also switches to the chat screen
handleCapture_showsChat ==
    \E frame \in Frames :
        /\ currentStream # "null"
        /\ capturedSrc' = frame
        /\ SetPage(showChatScreen([Page EXCEPT !.modal = TRUE]))
        /\ UNCHANGED <<apiVars, cameraVars, buttonVars, readers, uncaught,
                       historyVars>>

\* mutant: without a stream the capture asks for the camera again
handleCapture_retries ==
    \E frame \in Frames :
        IF currentStream = "null"
        THEN /\ initCameraPc' = "await"
             /\ UNCHANGED <<apiVars, currentStream, tracks, hidden, screenVars,
                            modalActive, capturedSrc, chatMessages, buttonVars,
                            readers, timers, requests, uncaught, historyVars>>
        ELSE /\ capturedSrc' = frame
             /\ modalActive' = TRUE
             /\ UNCHANGED <<apiVars, cameraVars, screenVars,
                            chatMessages, buttonVars, readers, timers,
                            requests, uncaught, historyVars>>

\* cameraFab click; frame is what toDataURL returns for the current frame
handleCapture ==
    \E frame \in Frames :
        IF currentStream = "null"
        THEN UNCHANGED vars
        ELSE /\ capturedSrc' = frame
             /\ modalActive' = TRUE
             /\ UNCHANGED <<apiVars, cameraVars, screenVars,
                            chatMessages, buttonVars, readers, timers,
                            requests, uncaught, historyVars>>

\* The overlay's buttons can be clicked while the overlay is shown.
\* closeModal click
CloseClick ==
    /\ modalActive
    /\ SetPage(closePhotoModal(Page))
    /\ UNCHANGED <<chatFrame, historyVars>>

\* retakeBtn click
RetakeClick ==
    /\ modalActive
    /\ SetPage(retakePhoto(Page))
    /\ UNCHANGED <<chatFrame, historyVars>>

\* click inside photoModal: on the backdrop itself or on its content
ModalTargets == {"photoModal", "modalContent"}
photoModalClick(target) ==
    /\ modalActive
    /\ SetPage(IF target = "photoModal" THEN closePhotoModal(Page) ELSE Page)
    /\ UNCHANGED <<chatFrame, historyVars>>

ModalClick == \E target \in ModalTargets : photoModalClick(target)

\* ------------------------------------------------------------- sendMessage
Keys == {"Enter", "a"}

\* sendMessage, with value = chatInput.value as the user has left it.  The
\* field belongs to the user: the handler's clearing of it is typed over
\* before the next send and no other handler reads it.
sendMessage(value) ==
    LET message == Trim(value)
        req == nInputs + 1
    IN  \/ /\ message = <<>>
           /\ UNCHANGED vars
        \/ /\ message # <<>>
           /\ nInputs < MaxInputs
           /\ SetPage([addMessage(Page, "user", message, NoImage, req, 1)
                         EXCEPT !.timers = @ \cup
                            {[kind |-> "send", req |-> req, k |-> 1,
                              message |-> message]}])
           /\ nInputs' = req
           /\ UNCHANGED chatFrame

\* sendBtn click
SendClick == \E value \in InputTexts : sendMessage(value)

\* keypress in chatInput
ChatInputKeypress ==
    \E key \in Keys : \E value \in InputTexts :
        IF key = "Enter" THEN sendMessage(value) ELSE UNCHANGED vars

\* ------------------------------------------------ usePhoto, useUploadedPhoto
\* The synchronous part of usePhoto, up to its await or its setTimeout; k
\* numbers the listeners one click runs.
\* mutant: the photo is always answered locally
usePhoto_localOnly(p, req, k) ==
    LET imageData == capturedSrc
        p1 == addMessage(p, "user", TookPhotoText, imageData, req, k)
        p2 == closePhotoModal(p1)
        p3 == showChatScreen(p2)
    IN  [p3 EXCEPT !.timers = @ \cup
            {[kind |-> "captured", req |-> req, k |-> k, message |-> <<>>]}]

usePhoto(p, req, k) ==
    LET imageData == capturedSrc
        p1 == addMessage(p, "user", TookPhotoText, imageData, req, k)
        p2 == closePhotoModal(p1)
        p3 == showChatScreen(p2)
    IN  IF apiClient # "null"
        THEN [addMessage(p3, "spirit", LookingCapturedText, NoImage, req, k)
                EXCEPT !.requests = @ \cup
                   {[fn |-> "usePhoto", req |-> req, k |-> k]}]
        ELSE [p3 EXCEPT !.timers = @ \cup
                   {[kind |-> "captured", req |-> req, k |-> k,
                     message |-> <<>>]}]

useUploadedPhoto(p, imageData, req, k) ==
    LET p1 == closePhotoModal(p)
        p2 == addMessage(p1, "user", UploadedPhotoText, imageData, req, k)
        p3 == showChatScreen(p2)
    IN  IF apiClient # "null"
        THEN [addMessage(p3, "spirit", LookingUploadedText, NoImage, req, k)
                EXCEPT !.requests = @ \cup
                   {[fn |-> "useUploadedPhoto", req |-> req, k |-> k]}]
        ELSE [p3 EXCEPT !.timers = @ \cup
                   {[kind |-> "uploaded", req |-> req, k |-> k,
                     message |-> <<>>]}]

\* A click event runs the listeners of its target in the order they were added.
RECURSIVE dispatchClick(_, _, _, _)
dispatchClick(listeners, p, req, k) ==
    IF listeners = <<>> THEN p
    ELSE LET l == Head(listeners)
             q == IF l.fn = "usePhoto" THEN usePhoto(p, req, k)
                  ELSE useUploadedPhoto(p, l.imageData, req, k)
         IN  dispatchClick(Tail(listeners), q, req, k + 1)

\* click on the element with id use-photo-btn
UseClick ==
    /\ modalActive
    /\ nInputs + Len(useListeners) <= MaxInputs
    /\ SetPage(dispatchClick(useListeners, Page, nInputs + 1, 1))
    /\ nInputs' = nInputs + Len(useListeners)
    /\ UNCHANGED chatFrame

\* ------------------------------------------------------ pending completions
\* The local photo replies all wait 1000 ms, so they run in the order they
\* were set; a text reply waits 500 to 1500 ms and may overtake or be
\* overtaken.
FixedDelay(t) == t.kind \in {"captured", "uploaded"}
Older(u, t) == u.req < t.req \/ (u.req = t.req /\ u.k < t.k)
\* mutant: every timer waits for the timers set before it
Expired_fifo(t) ==
    /\ t \in timers
    /\ ~\E u \in timers : Older(u, t)

Expired(t) ==
    /\ t \in timers
    /\ FixedDelay(t) => ~\E u \in timers : FixedDelay(u) /\ Older(u, t)

\* mutant: every local reply comes from the keyword responder
replyText_keyword(t, r) == generateSpiritResponse(t.message, r)

\* the text of the reply a timer callback appends, for the draw r
replyText(t, r) ==
    IF t.kind = "send" THEN generateSpiritResponse(t.message, r)
    ELSE IF t.kind = "captured"
    THEN <<capturedResponses[RandomIndex(r, Len(capturedResponses)) + 1]>>
    ELSE <<uploadedResponses[RandomIndex(r, Len(uploadedResponses)) + 1]>>

\* mutant: the callback appends its reply twice
timerCallback_twice(p, t, r) ==
    addMessage(addMessage([p EXCEPT !.timers = @ \ {t}], "spirit",
                          replyText(t, r), NoImage, t.req, t.k),
               "spirit", replyText(t, r), NoImage, t.req, t.k)

timerCallback(p, t, r) ==
    addMessage([p EXCEPT !.timers = @ \ {t}], "spirit", replyText(t, r),
               NoImage, t.req, t.k)

ReplyTimer ==
    /\ \E t \in timers : \E r \in Draws :
          Expired(t) /\ SetPage(timerCallback(Page, t, r))
    /\ UNCHANGED <<chatFrame, historyVars>>

\* The continuation of usePhoto / useUploadedPhoto after await identifyImage:
\* the text the try block or its catch appends.  A success result without an
\* objects array makes result.objects.join throw inside the try.
\* mutant: a returned result is shown as identified whatever its success field
identifyReply_ignoresSuccess(resp) ==
    LET result == identifyImage(resp)
    IN  IF result.threw THEN IdentifyErrorText
        ELSE IF result.data.objects THEN IdentifiedText ELSE IdentifyErrorText

identifyReply(resp) ==
    LET result == identifyImage(resp)
    IN  IF result.threw THEN IdentifyErrorText
        ELSE IF result.data.success
        THEN IF result.data.objects THEN IdentifiedText ELSE IdentifyErrorText
        ELSE NotIdentifiedText

\* mutant: the not-identified text is appended after every outcome
identifyContinuation_noElse(p, q, resp) ==
    addMessage(addMessage([p EXCEPT !.requests = @ \ {q}], "spirit",
                          identifyReply(resp), NoImage, q.req, q.k),
               "spirit", NotIdentifiedText, NoImage, q.req, q.k)

identifyContinuation(p, q, resp) ==
    addMessage([p EXCEPT !.requests = @ \ {q}], "spirit", identifyReply(resp),
               NoImage, q.req, q.k)

IdentifyDone ==
    /\ \E q \in requests : \E resp \in IdentifyResponses :
          SetPage(identifyContinuation(Page, q, resp))
    /\ UNCHANGED <<chatFrame, historyVars>>

\* --------------------------------------------------------------- handleFiles
uploadFrame ==
    <<apiVars, cameraVars, screenVars, chatMessages, timers,
      requests, nInputs>>

\* the handleFiles calls that still have a preview pending
UploadsInFlight == {x.up : x \in readers}

\* One FileReader per accepted file; index counts the accepted files from 0,
\* up tells the calls in flight apart.
newReaders(imageFiles, up) ==
    { [up |-> up, index |-> i - 1, imageData |-> imageFiles[i].data] :
        i \in 1..Len(imageFiles) }

handleFiles(files) ==
    LET imageFiles == imageFilesOf(files)
        free == (1..MaxUploadsInFlight) \ UploadsInFlight
    IN  \/ /\ Len(imageFiles) = 0
           /\ UNCHANGED vars
        \/ /\ Len(imageFiles) # 0
           /\ free # {}
           /\ readers' = readers \cup
                 newReaders(imageFiles, CHOOSE u \in free : \A v \in free : u <= v)
           /\ UNCHANGED <<uploadFrame, modalActive, capturedSrc, buttonVars,
                          uncaught>>

\* drop on the drop zone
handleDrop == \E files \in FileLists : handleFiles(files)

\* change of the file input
handleFileSelect == \E files \in FileLists : handleFiles(files)

\* the read fails: the reader has no onerror handler, nothing follows
ReaderError ==
    /\ \E rd \in readers : readers' = readers \ {rd}
    /\ UNCHANGED <<uploadFrame, modalActive, capturedSrc, buttonVars, uncaught>>

\* For the first file the preview callback swaps the element bound to
\* usePhotoBtn for a clone (cloneNode copies no listeners) and adds two
\* listeners to the clone, which is what getElementById finds.  Once the bound
\* element has left the document its parentNode is null, and the callback ends
\* in a TypeError after the preview is shown.
rebindUseButton(imageData) ==
    IF usePhotoBtnInDom
    THEN /\ usePhotoBtnInDom' = FALSE
         /\ useListeners' =
               <<[fn |-> "useUploadedPhoto", imageData |-> imageData],
                 [fn |-> "useUploadedPhoto", imageData |-> imageData]>>
         /\ UNCHANGED uncaught
    ELSE /\ uncaught' = TRUE
         /\ UNCHANGED buttonVars

\* reader.onload and the callback it sets for index * 100 ms later, as one
\* step: onload itself only sets the timer, and the files of a list finish
\* in any order.
readerOnload(rd) ==
    /\ rd \in readers
    /\ readers' = readers \ {rd}
    /\ capturedSrc' = rd.imageData
    /\ modalActive' = TRUE
    /\ IF rd.index = 0 THEN rebindUseButton(rd.imageData)
       ELSE UNCHANGED <<buttonVars, uncaught>>
    /\ UNCHANGED uploadFrame

ReaderLoad == \E rd \in readers : readerOnload(rd)

\* ------------------------------------------------- visibility and teardown
cameraFrame ==
    <<apiVars, currentStream, initCameraPc, screenVars, modalActive,
      capturedSrc, chatMessages, buttonVars, readers, timers, requests, uncaught, historyVars>>

setVideoEnabled(ts, on) ==
    [i \in DOMAIN ts |->
        IF ts[i].kind = "video" THEN [ts[i] EXCEPT !.enabled = on] ELSE ts[i]]

\* mutant: hiding the page stops the tracks
visibilitychange_stops(h) ==
    /\ hidden' = h
    /\ IF currentStream # "null"
       THEN tracks' = [i \in DOMAIN tracks |->
                         [tracks[i] EXCEPT !.enabled = ~h, !.stopped = @ \/ h]]
       ELSE UNCHANGED tracks
    /\ UNCHANGED cameraFrame

\* the visibilitychange listener, with document.hidden = h
visibilitychange(h) ==
    /\ hidden' = h
    /\ IF currentStream # "null"
       THEN tracks' = setVideoEnabled(tracks, ~h)
       ELSE UNCHANGED tracks
    /\ UNCHANGED cameraFrame

VisibilityChange == \E h \in BOOLEAN : visibilitychange(h)

\* the beforeunload listener
beforeunload ==
    /\ IF currentStream # "null"
       THEN tracks' = [i \in DOMAIN tracks |-> [tracks[i] EXCEPT !.stopped = TRUE]]
       ELSE UNCHANGED tracks
    /\ UNCHANGED <<hidden, cameraFrame>>

\* ------------------------------------------------------------ specification
UserAction ==
    \/ handleAwaken
    \/ BackClick
    \/ handleCapture
    \/ CloseClick
    \/ RetakeClick
    \/ ModalClick
    \/ SendClick
    \/ ChatInputKeypress
    \/ UseClick
    \/ handleDrop
    \/ handleFileSelect

Completion ==
    \/ HealthDone
    \/ CameraDone
    \/ ReplyTimer
    \/ IdentifyDone
    \/ ReaderLoad
    \/ ReaderError

\* The chat, the overlay and the uploads.  The visibility and teardown
\* listeners write only hidden and tracks, which no action of Next reads.
Next == UserAction \/ Completion

Spec == Init /\ [][Next]_vars

\* The camera with the page's visibility and teardown: the stream, the
\* capture, the overlay and the submission of captured photos.
CameraNext ==
    \/ CameraDone
    \/ HealthDone
    \/ handleCapture
    \/ RetakeClick
    \/ CloseClick
    \/ ModalClick
    \/ UseClick
    \/ ReplyTimer
    \/ IdentifyDone
    \/ handleAwaken
    \/ BackClick
    \/ VisibilityChange
    \/ beforeunload

CameraSpec == Init /\ [][CameraNext]_vars

\* A timer that is due runs, and a request that was sent is answered or fails.
FairSpec == Spec /\ WF_vars(ReplyTimer) /\ WF_vars(IdentifyDone)

\* The keyword responder alone: a text has just been sent from the Chat
\* screen and its reply timer is pending; the timer's callback calls
\* generateSpiritResponse with the text and a draw.
ResponderInit ==
    \E message \in TypedTexts :
        /\ apiClient = "client"
        /\ initAPIpc = "await"
        /\ healthProbes = 1
        /\ currentStream = "null"
        /\ initCameraPc = "done"
        /\ tracks = <<>>
        /\ hidden = FALSE
        /\ homeActive = FALSE
        /\ chatActive = TRUE
        /\ modalActive = FALSE
        /\ capturedSrc = ""
        /\ chatMessages = <<[type |-> "user", text |-> message,
                             image |-> NoImage, req |-> 1, k |-> 1]>>
        /\ usePhotoBtnInDom = TRUE
        /\ useListeners = <<[fn |-> "usePhoto", imageData |-> NoImage]>>
        /\ readers = {}
        /\ timers = {[kind |-> "send", req |-> 1, k |-> 1, message |-> message]}
        /\ requests = {}
        /\ uncaught = FALSE
        /\ nInputs = 1

ResponderSpec == ResponderInit /\ [][ReplyTimer]_vars

\* The chat operation alone: chat(message, imageBase64, context) has been
\* called on the client of a loaded page and its fetch is pending; the
\* response ends the call, whose result or error goes to the caller.
ChatInit ==
    \E message \in TypedTexts : \E imageBase64 \in ChatImages :
      \E context \in ChatContexts :
        /\ apiClient = "client"
        /\ initAPIpc = "done"
        /\ healthProbes = 1
        /\ currentStream = "null"
        /\ initCameraPc = "done"
        /\ tracks = <<>>
        /\ hidden = FALSE
        /\ homeActive = FALSE
        /\ chatActive = TRUE
        /\ modalActive = FALSE
        /\ capturedSrc = ""
        /\ chatMessages = <<>>
        /\ usePhotoBtnInDom = TRUE
        /\ useListeners = <<[fn |-> "usePhoto", imageData |-> NoImage]>>
        /\ readers = {}
        /\ timers = {}
        /\ requests =
              {[fn |-> "chat",
                args |-> [message |-> message, imageBase64 |-> imageBase64,
                          context |-> context],
                body |-> chatPayload(message, imageBase64, context)]}
        /\ uncaught = FALSE
        /\ nInputs = 0

\* the response to a chat request arrives: chat returns or throws
ChatDone ==
    /\ \E q \in requests : \E resp \in ChatResponses :
          /\ q.fn = "chat"
          /\ chat(resp).threw \in BOOLEAN
          /\ requests' = requests \ {q}
    /\ UNCHANGED <<apiVars, cameraVars, screenVars, modalActive, capturedSrc,
                   chatMessages, buttonVars, readers, timers, uncaught,
                   historyVars>>

ChatSpec == ChatInit /\ [][ChatDone]_vars

\* ------------------------------------------------------- reading the state
\* A handler call is named by its input and its place among the listeners
\* the input ran.
Reqs == 1..MaxInputs
Calls == Reqs \X (1..2)
CallOf(m) == <<m.req, m.k>>
InterimTexts == {LookingCapturedText, LookingUploadedText}
MsgsOf(msgs, type, call) ==
    {i \in DOMAIN msgs : msgs[i].type = type /\ CallOf(msgs[i]) = call}
UserCountIn(msgs, call) == Cardinality(MsgsOf(msgs, "user", call))
SpiritCountIn(msgs, call) == Cardinality(MsgsOf(msgs, "spirit", call))
InterimCountIn(msgs, call) ==
    Cardinality({i \in MsgsOf(msgs, "spirit", call) : msgs[i].text \in InterimTexts})
UserCount(call) == UserCountIn(chatMessages, call)
SpiritCount(call) == SpiritCountIn(chatMessages, call)
InterimCount(call) == InterimCountIn(chatMessages, call)
FinalCount(call) == SpiritCount(call) - InterimCount(call)
\* the calls that were photo submissions, and those that were text sends
PhotoCalls ==
    {CallOf(chatMessages[i]) : i \in
        {j \in DOMAIN chatMessages : chatMessages[j].image # NoImage}}
TextCalls ==
    {CallOf(chatMessages[i]) : i \in
        {j \in DOMAIN chatMessages :
            chatMessages[j].type = "user" /\ chatMessages[j].image = NoImage}}
\* the messages a step appended
Appended == SubSeq(chatMessages', Len(chatMessages) + 1, Len(chatMessages'))
IsAppend ==
    /\ Len(chatMessages') >= Len(chatMessages)
    /\ SubSeq(chatMessages', 1, Len(chatMessages)) = chatMessages

\* ------------------------------------------------------------------ claims
\* the step appended exactly one message: a user message without an image
TextSendStep ==
    /\ Len(Appended) = 1
    /\ IsAppend
    /\ Appended[1].type = "user"
    /\ Appended[1].image = NoImage

Blank(value) == \A i \in DOMAIN value : value[i] \in WhiteSpace

NoImageTyped(files) ==
    \A i \in DOMAIN files :
        ~(Len(files[i].type) >= 2 /\ files[i].type[1] = "image"
            /\ files[i].type[2] = "/")

\* C1 as stated: every call of usePhoto or useUploadedPhoto has put exactly
\* one user message into the transcript and never more than one spirit
\* message (the safety half of "one user message, then eventually exactly
\* one spirit message"), with or without the gateway.
C1_OneUserOneSpiritPerSubmission ==
    \A c \in PhotoCalls : UserCount(c) = 1 /\ SpiritCount(c) <= 1

\* C1 as amended: every call of usePhoto or useUploadedPhoto appends one user
\* message at once and, exactly when apiClient is set, one interim spirit
\* message with it; it never has a second user, interim or final spirit
\* message, and it eventually has exactly one final spirit message for good.
C1_SubmissionInterimThenOneFinal ==
    /\ [][UseClick
            => /\ IsAppend
               /\ \A k \in 1..Len(useListeners) :
                     /\ UserCountIn(chatMessages', <<nInputs + 1, k>>) = 1
                     /\ SpiritCountIn(chatMessages', <<nInputs + 1, k>>)
                           = (IF apiClient # "null" THEN 1 ELSE 0)
                     /\ InterimCountIn(chatMessages', <<nInputs + 1, k>>)
                           = (IF apiClient # "null" THEN 1 ELSE 0)]_vars
    /\ [](\A c \in PhotoCalls :
            UserCount(c) = 1 /\ InterimCount(c) <= 1 /\ FinalCount(c) <= 1)
    /\ \A c \in Calls : (c \in PhotoCalls) ~> [](FinalCount(c) = 1)

\* one submission went to the gateway and has its interim and its final
\* reply; another, made without the gateway, has its local reply alone
C1_Witness ==
    \E c, d \in PhotoCalls :
        /\ InterimCount(c) = 1 /\ FinalCount(c) = 1
        /\ InterimCount(d) = 0 /\ FinalCount(d) = 1

\* C2: once the health probe has confirmed the gateway, a send of non-empty
\* text issues a chat request to the gateway and sets no local reply timer.
C2_SendUsesGatewayChat ==
    [][(initAPIpc = "done" /\ apiClient # "null" /\ TextSendStep)
          => /\ \E q \in requests' \ requests : q.fn = "chat"
             /\ timers' = timers]_vars

\* C3: a send of text that is non-empty after trimming appends exactly one
\* user message in that step; that send never has two spirit messages, and
\* it eventually has exactly one, for good, whatever happens in between.
C3_SendOneUserThenOneSpirit ==
    /\ [][\A value \in InputTexts :
            (~Blank(value) /\ sendMessage(value))
               => /\ IsAppend
                  /\ Appended = <<[type |-> "user", text |-> Trim(value),
                                   image |-> NoImage, req |-> nInputs + 1,
                                   k |-> 1]>>]_vars
    /\ [](\A c \in TextCalls : UserCount(c) = 1 /\ SpiritCount(c) <= 1)
    /\ \A c \in Calls : (c \in TextCalls) ~> [](SpiritCount(c) = 1)

\* a reply to the first send arrived after a later input and with the overlay open
C3_Witness ==
    /\ <<1, 1>> \in TextCalls
    /\ Len(chatMessages) >= 3
    /\ chatMessages[Len(chatMessages)].type = "spirit"
    /\ chatMessages[Len(chatMessages)].req = 1
    /\ chatMessages[2].req # 1
    /\ modalActive

\* C4: a send whose input is empty after trimming changes neither the
\* transcript nor the screen nor the overlay nor the pending replies.
C4_BlankSendChangesNothing ==
    [][(\E value \in InputTexts : Blank(value) /\ sendMessage(value))
          => UNCHANGED <<chatMessages, homeActive, chatActive, modalActive,
                         timers, requests>>]_vars

\* a blank send is attempted with a reply pending and the overlay open
C4_Witness ==
    /\ timers # {}
    /\ modalActive
    /\ chatActive
    /\ chatMessages # <<>>

\* C5: one health probe is sent and never a second; a probe that does not
\* come back ok leaves the gateway unavailable; an unavailable gateway stays
\* unavailable; and a photo submitted then sets a local reply timer and
\* sends no identify request.
C5_FailedProbeDisablesGateway ==
    /\ [](healthProbes = 1)
    /\ [][\A resp \in HealthResponses :
            (~OkHealth(resp) /\ initAPIResume(resp)) => apiClient' = "null"]_vars
    /\ [][apiClient = "null" => apiClient' = "null"]_vars
    /\ [][(apiClient = "null" /\ UseClick)
            => requests' = requests /\ timers' # timers]_vars

\* the probe has failed and a photo submitted afterwards waits for its local reply
C5_Witness ==
    /\ initAPIpc = "done"
    /\ apiClient = "null"
    /\ \E t \in timers : t.kind \in {"captured", "uploaded"}
    /\ requests = {}

\* C6: a use click ends with the overlay closed, the Chat screen shown and
\* a user message carrying the staged photo appended.
C6_UseClosesShowsChatAppendsPhoto ==
    [][UseClick
          => /\ ~modalActive'
             /\ chatActive' /\ ~homeActive'
             /\ IsAppend
             /\ \E i \in DOMAIN Appended :
                   Appended[i].type = "user" /\ Appended[i].image = capturedSrc]_vars

\* C7: retake, the close button and a click on the overlay's backdrop close
\* the overlay and change neither the transcript nor the screen nor the
\* pending replies.
C7_CloseOnlyClosesOverlay ==
    [][(RetakeClick \/ CloseClick \/ photoModalClick("photoModal"))
          => /\ ~modalActive'
             /\ UNCHANGED <<chatMessages, homeActive, chatActive, timers,
                            requests>>]_vars

\* a staged photo was dismissed on the Chat screen while a reply was pending
C7_Witness ==
    /\ ~modalActive
    /\ capturedSrc # ""
    /\ PhotoCalls = {}
    /\ chatActive
    /\ timers # {}

\* C8: a capture with a stream held, and the preview of a decoded file, open
\* the overlay and change neither the screen nor the transcript.
C8_StagingOpensOverlayOnly ==
    [][((handleCapture /\ currentStream # "null") \/ ReaderLoad)
          => /\ modalActive'
             /\ UNCHANGED <<homeActive, chatActive, chatMessages>>]_vars

\* a file's preview is open over the Chat screen, the transcript not empty
C8_Witness ==
    /\ modalActive
    /\ chatActive
    /\ capturedSrc = "imgB"
    /\ chatMessages # <<>>
    /\ PhotoCalls = {}

\* C9: exactly one of Home and Chat is active; awaken shows Chat and back
\* shows Home, and neither touches the overlay or the transcript.
C9_ScreenTwoStateMachine ==
    /\ [](homeActive # chatActive)
    /\ [][handleAwaken
            => /\ chatActive' /\ ~homeActive'
               /\ UNCHANGED <<modalActive, chatMessages>>]_vars
    /\ [][BackClick
            => /\ homeActive' /\ ~chatActive'
               /\ UNCHANGED <<modalActive, chatMessages>>]_vars

\* back to Home with the overlay open and a transcript
C9_Witness ==
    /\ homeActive
    /\ ~chatActive
    /\ modalActive
    /\ chatMessages # <<>>

\* C10: handleFiles with a list without an image-typed entry changes neither
\* the overlay nor the transcript, starts no read and sets no timer.
C10_NoImageFilesChangesNothing ==
    [][(\E files \in FileLists : NoImageTyped(files) /\ handleFiles(files))
          => UNCHANGED <<modalActive, capturedSrc, chatMessages, readers,
                         timers, requests>>]_vars

\* a list without images is dropped while the overlay is closed and a
\* reply is pending
C10_Witness ==
    /\ \E files \in FileLists : files # <<>> /\ NoImageTyped(files)
    /\ ~modalActive
    /\ readers = {}
    /\ timers # {}

\* the candidate set the text calls for: greeting before story before name
C11_Candidates(text) ==
    IF Includes(text, <<"ni", "hao">>)
    THEN {"greeting-1", "greeting-2", "greeting-3"}
    ELSE IF Includes(text, <<"gu", "shi">>)
    THEN {"story-1", "story-2", "story-3"}
    ELSE IF Includes(text, <<"ming", "zi">>)
    THEN {"name-1", "name-2"}
    ELSE {"default-1", "default-2", "default-3", "default-4", "default-5",
          "default-6", "default-7"}

\* C11: the reply generateSpiritResponse gives to a text is one of the
\* candidates of the first of greeting, story, name that occurs in the
\* text, and one of the default candidates when none occurs.
C11_ReplyFromFirstKeywordSet ==
    \A i, j \in DOMAIN chatMessages :
        (/\ chatMessages[j].type = "user"
         /\ chatMessages[j].image = NoImage
         /\ chatMessages[i].type = "spirit"
         /\ CallOf(chatMessages[i]) = CallOf(chatMessages[j]))
           => /\ Len(chatMessages[i].text) = 1
              /\ chatMessages[i].text[1] \in C11_Candidates(chatMessages[j].text)

\* a text with the story keyword before the greeting keyword got a greeting
C11_Witness ==
    /\ Len(chatMessages) = 2
    /\ chatMessages[1].text = <<"gu", "shi", "ni", "hao">>
    /\ chatMessages[2].type = "spirit"
    /\ chatMessages[2].text = <<"greeting-2">>

\* the identify call returned a body whose success field is false
ReturnedNoSuccess(resp) ==
    resp.net /\ resp.ok /\ resp.decodable /\ ~resp.success

\* the continuation of the request q runs with the response resp
IdentifyStep(q, resp) ==
    /\ q \in requests
    /\ SetPage(identifyContinuation(Page, q, resp))
    /\ UNCHANGED <<chatFrame, historyVars>>

\* C12: when the identify call of a submitted photo returns a result whose
\* success field is false, the step appends one spirit message, the fixed
\* could-not-identify text, and nothing of a description or object list.
C12_NoSuccessShowsNotIdentified ==
    [][\A q \in requests : \A resp \in IdentifyResponses :
          (ReturnedNoSuccess(resp) /\ IdentifyStep(q, resp))
             => /\ IsAppend
                /\ Len(Appended) = 1
                /\ Appended[1].type = "spirit"
                /\ Appended[1].text = NotIdentifiedText
                /\ Appended[1].image = NoImage]_vars

\* a captured photo went to the gateway and got the could-not-identify text
C12_Witness ==
    \E i, j, m \in DOMAIN chatMessages :
        /\ chatMessages[i].text = TookPhotoText
        /\ chatMessages[j].text = LookingCapturedText
        /\ chatMessages[m].text = NotIdentifiedText
        /\ CallOf(chatMessages[j]) = CallOf(chatMessages[i])
        /\ CallOf(chatMessages[m]) = CallOf(chatMessages[i])

\* the identify call threw: no connection, a body that is not JSON, or a
\* status outside the success range
IdentifyFailed(resp) == ~resp.net \/ ~resp.decodable \/ ~resp.ok

\* the callback of the pending timer t runs with the draw r
TimerStep(t, r) ==
    /\ Expired(t)
    /\ SetPage(timerCallback(Page, t, r))
    /\ UNCHANGED <<chatFrame, historyVars>>

\* the local candidate replies of the two submit routines
CapturedCandidates == {<<capturedResponses[i]>> : i \in DOMAIN capturedResponses}
UploadedCandidates == {<<uploadedResponses[i]>> : i \in DOMAIN uploadedResponses}

\* C13 as stated: a failed identify call, like a submission without the
\* gateway, ends in one spirit message out of the local candidate replies,
\* and no exception leaves the handler.
C13_FailureRepliesFromCandidates ==
    /\ [][\A q \in requests : \A resp \in IdentifyResponses :
            (IdentifyFailed(resp) /\ IdentifyStep(q, resp))
               => /\ Len(Appended) = 1
                  /\ Appended[1].type = "spirit"
                  /\ Appended[1].text \in CapturedCandidates \cup UploadedCandidates
                  /\ uncaught' = uncaught]_vars
    /\ [][\A t \in timers : \A r \in Draws :
            (FixedDelay(t) /\ TimerStep(t, r))
               => /\ Len(Appended) = 1
                  /\ Appended[1].type = "spirit"
                  /\ Appended[1].text \in CapturedCandidates \cup UploadedCandidates
                  /\ uncaught' = uncaught]_vars

\* C13 as amended: a failed identify call ends in one spirit message, the
\* fixed identification-error text; a submission without the gateway sets
\* one timer per call and ends in one spirit message out of the candidate
\* replies of its routine; no exception leaves the handler either way.
C13_FailureRepliesErrorText ==
    /\ [][\A q \in requests : \A resp \in IdentifyResponses :
            (IdentifyFailed(resp) /\ IdentifyStep(q, resp))
               => /\ IsAppend
                  /\ Len(Appended) = 1
                  /\ Appended[1].type = "spirit"
                  /\ Appended[1].text = IdentifyErrorText
                  /\ CallOf(Appended[1]) = <<q.req, q.k>>
                  /\ uncaught' = uncaught]_vars
    /\ [][(apiClient = "null" /\ UseClick)
            => /\ requests' = requests
               /\ Cardinality(timers' \ timers) = Len(useListeners)
               /\ \A i \in DOMAIN Appended : Appended[i].type = "user"
               /\ uncaught' = uncaught]_vars
    /\ [][\A t \in timers : \A r \in Draws :
            (FixedDelay(t) /\ TimerStep(t, r))
               => /\ IsAppend
                  /\ Len(Appended) = 1
                  /\ Appended[1].type = "spirit"
                  /\ Appended[1].text \in
                        (IF t.kind = "captured" THEN CapturedCandidates
                         ELSE UploadedCandidates)
                  /\ CallOf(Appended[1]) = <<t.req, t.k>>
                  /\ uncaught' = uncaught]_vars

\* one photo's identify call failed and got the error text, a later photo
\* was submitted without the gateway and got a candidate reply
C13_Witness ==
    \E i, j \in DOMAIN chatMessages :
        /\ i < j
        /\ chatMessages[i].text = IdentifyErrorText
        /\ chatMessages[j].text \in CapturedCandidates \cup UploadedCandidates
        /\ uncaught = FALSE

\* C14: no handler and no asynchronous completion ends in an uncaught
\* exception, a second upload after a first one included.
C14_NoUncaughtException == uncaught = FALSE

VideoTracks(ts) == {i \in DOMAIN ts : ts[i].kind = "video"}

\* C15: with a stream held, a visibility change to hidden disables the
\* video track and a change to visible enables it; a visibility change stops
\* no track, only the teardown does; and a visibility change that finds the
\* track already in the state it sets changes nothing about the tracks.
C15_VisibilityTogglesEnabledOnly ==
    /\ [][\A h \in BOOLEAN :
            (currentStream # "null" /\ visibilitychange(h))
               => /\ DOMAIN tracks' = DOMAIN tracks
                  /\ \A i \in VideoTracks(tracks) : tracks'[i].enabled = ~h
                  /\ \A i \in DOMAIN tracks :
                        tracks'[i].stopped = tracks[i].stopped]_vars
    /\ [][(\E i \in DOMAIN tracks \cap DOMAIN tracks' :
               tracks'[i].stopped /\ ~tracks[i].stopped) => beforeunload]_vars
    /\ [][\A h \in BOOLEAN :
            (/\ visibilitychange(h)
             /\ \A i \in VideoTracks(tracks) : tracks[i].enabled = ~h)
               => tracks' = tracks]_vars
    /\ [](\A on \in BOOLEAN :
            setVideoEnabled(setVideoEnabled(tracks, on), on)
               = setVideoEnabled(tracks, on))

\* the page is hidden, the stream is held and its track is disabled, not stopped
C15_Witness ==
    /\ hidden
    /\ currentStream # "null"
    /\ tracks # <<>>
    /\ \A i \in VideoTracks(tracks) : ~tracks[i].enabled /\ ~tracks[i].stopped

\* C16: whenever the page is hidden and a stream is held, the video track
\* of the stream is disabled, also when getUserMedia resolves while the page
\* is hidden.
C16_HiddenImpliesTrackDisabled ==
    (hidden /\ currentStream # "null")
       => \A i \in VideoTracks(tracks) : ~tracks[i].enabled

\* the health request failed or its body could not be decoded
HealthFailed(resp) == ~resp.net \/ resp.body = "undecodable"

\* C17: checkHealth throws for no response; for a failed request or an
\* undecodable body its result has the status error; and initAPI ends with
\* the gateway kept exactly when the probe came back ok and dropped
\* otherwise, without an uncaught exception.
C17_CheckHealthNeverThrows ==
    [][\A resp \in HealthResponses :
          initAPIResume(resp)
             => /\ ~checkHealth(resp).threw
                /\ HealthFailed(resp) => checkHealth(resp).status = "error"
                /\ initAPIpc' = "done"
                /\ apiClient' = (IF OkHealth(resp) THEN "client" ELSE "null")
                /\ uncaught' = uncaught]_vars

\* initAPI has returned with the gateway dropped before any input was made
C17_Witness ==
    /\ initAPIpc = "done"
    /\ apiClient = "null"
    /\ nInputs = 0
    /\ ~uncaught

\* what C18 asks of the result of an operation for an exchange that got a
\* response: the body for a success status; for any other status an error
\* with the server's text if the body is decodable and has one, and with
\* the operation's generic message otherwise
C18_Maps(result, resp, generic) ==
    /\ (resp.ok /\ resp.decodable) => (~result.threw /\ result.data = resp)
    /\ ~resp.ok
         => /\ result.threw
            /\ result.message =
                  (IF resp.decodable /\ resp.error # "undefined"
                   THEN resp.error ELSE generic)

\* C18: identifyImage, called for a submitted photo, and chat return the
\* decoded body for a success status and throw for every other status, the
\* error's message being the server's error text when the body has one and
\* the generic failure message otherwise, an undecodable body included.
C18_NonOkMapsToServerOrGenericMessage ==
    [][\A q \in requests : \A resp \in IdentifyResponses :
          (resp.net /\ IdentifyStep(q, resp))
             => /\ C18_Maps(identifyImage(resp), resp, "identify failed")
                /\ C18_Maps(chat(resp), resp, "chat failed")]_vars

\* C19: in every step the transcript before the step is a prefix of the
\* transcript after it: nothing is removed, reordered or altered.
C19_TranscriptAppendOnly == [][IsAppend]_vars

\* back on the home screen with the overlay closed again, the transcript
\* still holds an exchange
C19_Witness ==
    /\ homeActive
    /\ ~modalActive
    /\ capturedSrc # ""
    /\ Len(chatMessages) >= 3
    /\ timers = {} /\ requests = {}

\* an input the program accepts: a send of text that is not blank, or a use
\* of the staged photo
AcceptedInput ==
    \/ \E value \in InputTexts : ~Blank(value) /\ sendMessage(value)
    \/ UseClick

UserMsgs(msgs) == {i \in DOMAIN msgs : msgs[i].type = "user"}

\* C20: the user messages of an accepted input are appended in the step of
\* the input, no other step appends a user message, and so the user
\* messages stand in the transcript in the order of their inputs, however
\* the replies fall between them.
C20_UserMessagesInInputOrder ==
    /\ [][AcceptedInput
            => /\ IsAppend
               /\ Appended # <<>>
               /\ Appended[1].type = "user"
               /\ \A i \in UserMsgs(Appended) : Appended[i].req = nInputs + 1]_vars
    /\ [][(Len(chatMessages') > Len(chatMessages) /\ UserMsgs(Appended) # {})
            => AcceptedInput]_vars
    /\ [](\A i, j \in UserMsgs(chatMessages) :
            i < j => \/ chatMessages[i].req < chatMessages[j].req
                     \/ /\ chatMessages[i].req = chatMessages[j].req
                        /\ chatMessages[i].k < chatMessages[j].k)

\* two sends, the reply to the second arrived before the reply to the first
C20_Witness ==
    /\ Len(chatMessages) = 4
    /\ chatMessages[1].type = "user" /\ chatMessages[1].req = 1
    /\ chatMessages[2].type = "user" /\ chatMessages[2].req = 2
    /\ chatMessages[3].type = "spirit" /\ chatMessages[3].req = 2
    /\ chatMessages[4].type = "spirit" /\ chatMessages[4].req = 1

\* C21: a pending timer or identify request leaves the pending set only by
\* its own completion, whatever the user does meanwhile; the completion
\* appends one spirit message of its call and changes neither the screen
\* nor the overlay.
C21_NoActionCancelsPendingReply ==
    /\ [][\A t \in timers \ timers' : \E r \in Draws : TimerStep(t, r)]_vars
    /\ [][\A q \in requests \ requests' :
            \E resp \in IdentifyResponses : IdentifyStep(q, resp)]_vars
    /\ [][\A t \in timers : \A r \in Draws :
            TimerStep(t, r)
               => /\ IsAppend
                  /\ Len(Appended) = 1
                  /\ Appended[1].type = "spirit"
                  /\ CallOf(Appended[1]) = <<t.req, t.k>>
                  /\ UNCHANGED <<homeActive, chatActive, modalActive>>]_vars
    /\ [][\A q \in requests : \A resp \in IdentifyResponses :
            IdentifyStep(q, resp)
               => /\ IsAppend
                  /\ Len(Appended) = 1
                  /\ Appended[1].type = "spirit"
                  /\ CallOf(Appended[1]) = <<q.req, q.k>>
                  /\ UNCHANGED <<homeActive, chatActive, modalActive>>]_vars

\* the identify result of the first photo arrived on the Home screen, under
\* an open overlay and after a later send
C21_Witness ==
    /\ homeActive
    /\ modalActive
    /\ Len(chatMessages) >= 4
    /\ chatMessages[1].image # NoImage
    /\ chatMessages[2].text \in InterimTexts
    /\ chatMessages[3].type = "user" /\ chatMessages[3].req = 2
    /\ chatMessages[Len(chatMessages)].type = "spirit"
    /\ chatMessages[Len(chatMessages)].req = 1
    /\ chatMessages[Len(chatMessages)].text \notin InterimTexts

\* C22: the body of a chat request has the image field exactly when the
\* image argument was neither null nor empty, and then with that image; it
\* always has the message and the context fields, with the arguments' values.
C22_ChatBodyImageIffProvided ==
    \A q \in requests :
        q.fn = "chat"
           => /\ ("image" \in DOMAIN q.body)
                    <=> (q.args.imageBase64 \notin {NoImage, ""})
              /\ ("image" \in DOMAIN q.body)
                    => q.body.image = q.args.imageBase64
              /\ {"message", "context"} \subseteq DOMAIN q.body
              /\ q.body.message = q.args.message
              /\ q.body.context = q.args.context

\* a chat request was sent with the empty string as its image
C22_Witness ==
    \E q \in requests :
        /\ q.fn = "chat"
        /\ q.args.imageBase64 = ""
        /\ q.args.context = "context"
        /\ DOMAIN q.body = {"message", "context"}

\* C23: every user message a use click appends carries the photo staged in
\* the overlay at the click, the one captured or selected last.
C23_UsePromotesStagedPhoto ==
    [][UseClick
          => \A i \in UserMsgs(Appended) : Appended[i].image = capturedSrc]_vars

\* C24: a use click runs the submission routine once: the transcript gains
\* exactly one user message, for a captured and for an uploaded photo.
C24_UseAppendsOneUserMessage ==
    [][UseClick => Cardinality(UserMsgs(Appended)) = 1]_vars

\* C25: the timer of a sent text may run whichever other timers are
\* pending, so replies come in completion order; and every reply to a text
\* stands after the user message it answers.
C25_TextRepliesInCompletionOrder ==
    /\ \A t \in timers : t.kind = "send" => Expired(t)
    /\ \A i \in DOMAIN chatMessages :
          (chatMessages[i].type = "spirit"
             /\ CallOf(chatMessages[i]) \in TextCalls)
            => \E j \in 1..(i - 1) :
                  /\ chatMessages[j].type = "user"
                  /\ CallOf(chatMessages[j]) = CallOf(chatMessages[i])

\* the execution the claim says exists: two texts were sent and the reply
\* to the later one stands before the reply to the earlier one
C25_Witness ==
    \E i, j \in DOMAIN chatMessages :
        /\ i < j
        /\ chatMessages[i].type = "spirit"
        /\ chatMessages[j].type = "spirit"
        /\ CallOf(chatMessages[i]) \in TextCalls
        /\ CallOf(chatMessages[j]) \in TextCalls
        /\ chatMessages[j].req < chatMessages[i].req

\* C26: an identify request is sent only when the health probe has come
\* back ok: a photo submitted while the probe is pending sends none.
C26_IdentifyOnlyAfterOkProbe ==
    [][(UseClick /\ requests' # requests)
          => (initAPIpc = "done" /\ apiClient # "null")]_vars

\* C27: once the probe has come back ok the gateway stays available,
\* whatever the identify calls return or throw, and every photo submitted
\* from then on sends an identify request and sets no local timer.
C27_GatewayStaysAfterOkProbe ==
    /\ [][(initAPIpc = "done" /\ apiClient # "null")
            => (initAPIpc' = "done" /\ apiClient' = apiClient)]_vars
    /\ [][(initAPIpc = "done" /\ apiClient # "null" /\ UseClick)
            => /\ Cardinality(requests' \ requests) = Len(useListeners)
               /\ timers' = timers]_vars

\* after the ok probe an identify call failed, and a photo submitted later
\* has its identify request pending
C27_Witness ==
    /\ initAPIpc = "done"
    /\ apiClient # "null"
    /\ \E i \in DOMAIN chatMessages :
          /\ chatMessages[i].text = IdentifyErrorText
          /\ \E q \in requests : q.req > chatMessages[i].req

SpiritMsgs(msgs) == {i \in DOMAIN msgs : msgs[i].type = "spirit"}

\* C28: in every state with the gateway unavailable there are at most as
\* many spirit messages as user messages, every spirit message stands after
\* the user message it answers, and with no reply timer pending the two
\* numbers are equal.
C28_LocalRepliesMatchUserMessages ==
    apiClient = "null"
       => /\ Cardinality(SpiritMsgs(chatMessages))
                <= Cardinality(UserMsgs(chatMessages))
          /\ \A i \in SpiritMsgs(chatMessages) :
                \E j \in UserMsgs(chatMessages) :
                    j < i /\ CallOf(chatMessages[j]) = CallOf(chatMessages[i])
          /\ timers = {}
                => Cardinality(SpiritMsgs(chatMessages))
                      = Cardinality(UserMsgs(chatMessages))

\* C29: a capture with no stream held changes neither the overlay nor the
\* staged photo nor the screen nor the transcript, and once initCamera has
\* returned no step asks for the camera again or brings a stream.
C29_CaptureWithoutStreamIsNoOp ==
    /\ [][(currentStream = "null" /\ handleCapture)
            => UNCHANGED <<modalActive, capturedSrc, homeActive, chatActive,
                           chatMessages>>]_vars
    /\ [][initCameraPc = "done"
            => (initCameraPc' = "done" /\ currentStream' = currentStream)]_vars

\* the acquisition has failed; the Chat screen is shown and nothing is staged
C29_Witness ==
    /\ initCameraPc = "done"
    /\ currentStream = "null"
    /\ chatActive
    /\ ~modalActive
    /\ capturedSrc = ""
    /\ initAPIpc = "done"

====
